---------------------------- MODULE Spec2Model ----------------------------
(***************************************************************************)
(* Model of openhtf/io/rundata.py: the RunData record, its JSON encoding   *)
(* (AsJSON), its decoding (FromFile), SaveToFile, IsAlive and              *)
(* EnumerateRunDirectory, over a small file system and process table.      *)
(*                                                                         *)
(* Text is modelled character by character: a string is a sequence of      *)
(* one-character strings, so that encoding, decoding, path joining and     *)
(* partial writes act on the same bytes the program reads and writes.      *)
(***************************************************************************)
EXTENDS Integers, Sequences, FiniteSets, TLC

(***************************************************************************)
(* Characters                                                              *)
(***************************************************************************)
QUOTE  == "\""
BSLASH == "\\"
NL     == "\n"
SP     == " "
NUL    == "NUL"      \* the zero byte that fills a hole of a sparse file
SLASH  == "/"

Digits == <<"0", "1", "2", "3", "4", "5", "6", "7", "8", "9">>

IsDigit(c) == \E i \in 1..10 : Digits[i] = c

DigitVal(c) == (CHOOSE i \in 1..10 : Digits[i] = c) - 1

\* The characters of the model in ASCII order (the order sort_keys uses).
Ascii ==
  <<NUL, NL, SP, QUOTE, ",", "-", SLASH,
    "0", "1", "2", "3", "4", "5", "6", "7", "8", "9", ":",
    "[", BSLASH, "]", "_",
    "a", "b", "c", "d", "e", "f", "g", "h", "i", "j", "k", "l", "m",
    "n", "o", "p", "q", "r", "s", "t", "u", "v", "w", "x", "y", "z",
    "{", "}">>

Ord(c) == CHOOSE i \in 1..Len(Ascii) : Ascii[i] = c

RECURSIVE StrLess(_, _)
\* Python's < on strings: lexicographic by code point.
StrLess(a, b) ==
  IF b = <<>> THEN FALSE
  ELSE IF a = <<>> THEN TRUE
  ELSE IF Head(a) = Head(b) THEN StrLess(Tail(a), Tail(b))
  ELSE Ord(Head(a)) < Ord(Head(b))

RECURSIVE Spaces(_)
Spaces(n) == IF n <= 0 THEN <<>> ELSE <<SP>> \o Spaces(n - 1)

(***************************************************************************)
(* Python values as JSON sees them.  Every value has the same four fields  *)
(* so that values of different types can be compared.                      *)
(*   t = "str"  : s holds the characters                                   *)
(*   t = "int"  : n holds the number                                       *)
(*   t = "null", "true", "false"                                           *)
(*   t = "list" : kv holds <<<<>>, item>> pairs                            *)
(*   t = "dict" : kv holds <<key, value>> pairs, key a character sequence  *)
(***************************************************************************)
PyStr(s)   == [t |-> "str",  s |-> s,    n |-> 0, kv |-> <<>>]
PyInt(n)   == [t |-> "int",  s |-> <<>>, n |-> n, kv |-> <<>>]
PyNone     == [t |-> "null", s |-> <<>>, n |-> 0, kv |-> <<>>]
PyList(kv) == [t |-> "list", s |-> <<>>, n |-> 0, kv |-> kv]
PyDict(kv) == [t |-> "dict", s |-> <<>>, n |-> 0, kv |-> kv]

\* The field names of the namedtuple, in declaration order.
K_station_id  == <<"s", "t", "a", "t", "i", "o", "n", "_", "i", "d">>
K_script_name == <<"s", "c", "r", "i", "p", "t", "_", "n", "a", "m", "e">>
K_http_host   == <<"h", "t", "t", "p", "_", "h", "o", "s", "t">>
K_http_port   == <<"h", "t", "t", "p", "_", "p", "o", "r", "t">>
K_pid         == <<"p", "i", "d">>

Fields == <<K_station_id, K_script_name, K_http_host, K_http_port, K_pid>>

FieldSet == {Fields[i] : i \in 1..Len(Fields)}

\* RunData(station_id, script_name, http_host, http_port, pid): the
\* constructor stores whatever values it is given.
RunData(station_id, script_name, http_host, http_port, pid) ==
  [station_id |-> station_id, script_name |-> script_name,
   http_host |-> http_host, http_port |-> http_port, pid |-> pid]

\* self._asdict(): the fields as key/value pairs in declaration order.
AsDict(r) ==
  <<<<K_station_id, r.station_id>>, <<K_script_name, r.script_name>>,
    <<K_http_host, r.http_host>>, <<K_http_port, r.http_port>>,
    <<K_pid, r.pid>>>>

(***************************************************************************)
(* json.dumps(data, sort_keys=True, indent=4, separators=(',', ': '))      *)
(***************************************************************************)
JSON_INDENT == 4

RECURSIVE NatDigits(_)
NatDigits(n) ==
  IF n < 10 THEN <<Digits[n + 1]>>
  ELSE NatDigits(n \div 10) \o <<Digits[(n % 10) + 1]>>

\* str(n) for an integer
IntText(n) == IF n < 0 THEN <<"-">> \o NatDigits(0 - n) ELSE NatDigits(n)

\* The escape of one character inside a JSON string.
EscapeChar(c) ==
  IF c = QUOTE THEN <<BSLASH, QUOTE>>
  ELSE IF c = BSLASH THEN <<BSLASH, BSLASH>>
  ELSE IF c = NL THEN <<BSLASH, "n">>
  ELSE <<c>>

RECURSIVE EscapeAll(_)
EscapeAll(s) ==
  IF s = <<>> THEN <<>> ELSE EscapeChar(Head(s)) \o EscapeAll(Tail(s))

\* encode_basestring_ascii
StringText(s) == <<QUOTE>> \o EscapeAll(s) \o <<QUOTE>>

RECURSIVE InsertSorted(_, _)
InsertSorted(p, kv) ==
  IF kv = <<>> THEN <<p>>
  ELSE IF StrLess(p[1], Head(kv)[1]) THEN <<p>> \o kv
  ELSE <<Head(kv)>> \o InsertSorted(p, Tail(kv))

RECURSIVE SortKeys(_)
\* sorted(dct.items(), key=lambda kv: kv[0])
SortKeys(kv) ==
  IF kv = <<>> THEN <<>> ELSE InsertSorted(Head(kv), SortKeys(Tail(kv)))

RECURSIVE Dumps(_, _, _)
RECURSIVE DumpItems(_, _, _, _)
\* The items of a container at nesting level `level`, each on its own line.
DumpItems(kv, isDict, sortKeys, level) ==
  IF kv = <<>> THEN <<>>
  ELSE (IF isDict THEN StringText(Head(kv)[1]) \o <<":", SP>> ELSE <<>>)
       \o Dumps(Head(kv)[2], sortKeys, level)
       \o (IF Len(kv) > 1
           THEN <<",", NL>> \o Spaces(JSON_INDENT * level)
                \o DumpItems(Tail(kv), isDict, sortKeys, level)
           ELSE <<>>)

\* The text of value v when it sits at nesting level `level`.
Dumps(v, sortKeys, level) ==
  CASE v.t = "str"   -> StringText(v.s)
    [] v.t = "int"   -> IntText(v.n)
    [] v.t = "null"  -> <<"n", "u", "l", "l">>
    [] v.t = "true"  -> <<"t", "r", "u", "e">>
    [] v.t = "false" -> <<"f", "a", "l", "s", "e">>
    [] v.t = "list"  ->
         IF v.kv = <<>> THEN <<"[", "]">>
         ELSE <<"[", NL>> \o Spaces(JSON_INDENT * (level + 1))
              \o DumpItems(v.kv, FALSE, sortKeys, level + 1)
              \o <<NL>> \o Spaces(JSON_INDENT * level) \o <<"]">>
    [] v.t = "dict"  ->
         IF v.kv = <<>> THEN <<"{", "}">>
         ELSE <<"{", NL>> \o Spaces(JSON_INDENT * (level + 1))
              \o DumpItems(IF sortKeys THEN SortKeys(v.kv) ELSE v.kv,
                           TRUE, sortKeys, level + 1)
              \o <<NL>> \o Spaces(JSON_INDENT * level) \o <<"}">>

\* AsJSON as it would be had it written str(self.pid) for the pid.
AsJSON_PidAsText(r) ==
  Dumps(PyDict(AsDict([r EXCEPT !.pid = PyStr(IntText(r.pid.n))])), TRUE, 0)

\* RunData.AsJSON
AsJSON(r) == Dumps(PyDict(AsDict(r)), TRUE, 0)


(***************************************************************************)
(* json.loads(data): the decoder of the standard library, on the grammar   *)
(* the model's texts can hold (strings with the escapes of EscapeChar and  *)
(* \/, integers, null/true/false, arrays, objects).  Escapes that denote   *)
(* characters outside Ascii (\b \f \r \t \uXXXX) and the fraction and      *)
(* exponent parts of numbers are not modelled.                             *)
(* A parse returns [ok, v, i]: success, the value, the index after it.     *)
(***************************************************************************)
ParseFail == [ok |-> FALSE, v |-> PyNone, i |-> 0]

ParseOk(v, i) == [ok |-> TRUE, v |-> v, i |-> i]

IsWs(c) == c = SP \/ c = NL

RECURSIVE SkipWs(_, _)
\* WHITESPACE.match(s, i).end()
SkipWs(s, i) ==
  IF i <= Len(s) /\ IsWs(s[i]) THEN SkipWs(s, i + 1) ELSE i

\* s[i:i+1] == c
At(s, i, c) == i <= Len(s) /\ s[i] = c

\* s[i:i+len(w)] == w
StartsWith(s, i, w) ==
  /\ i + Len(w) - 1 <= Len(s)
  /\ \A k \in 1..Len(w) : s[i + k - 1] = w[k]

RECURSIVE ScanString(_, _, _)
\* scanstring(s, i, strict=True): i is the index after the opening quote.
ScanString(s, i, acc) ==
  IF i > Len(s) THEN ParseFail                     \* unterminated string
  ELSE IF s[i] = QUOTE THEN ParseOk(PyStr(acc), i + 1)
  ELSE IF s[i] = NL \/ s[i] = NUL THEN ParseFail   \* control character
  ELSE IF s[i] # BSLASH THEN ScanString(s, i + 1, Append(acc, s[i]))
  ELSE IF i + 1 > Len(s) THEN ParseFail
  ELSE IF s[i + 1] \in {QUOTE, BSLASH, SLASH}
       THEN ScanString(s, i + 2, Append(acc, s[i + 1]))
  ELSE IF s[i + 1] = "n" THEN ScanString(s, i + 2, Append(acc, NL))
  ELSE ParseFail                                   \* invalid escape

RECURSIVE ScanDigits(_, _, _)
\* the digits of NUMBER_RE from index i, accumulated in base 10
ScanDigits(s, i, acc) ==
  IF i <= Len(s) /\ IsDigit(s[i])
  THEN ScanDigits(s, i + 1, acc * 10 + DigitVal(s[i]))
  ELSE [n |-> acc, i |-> i]

\* NUMBER_RE = -?(0|[1-9]\d*) matched at index i
ScanNumber(s, i) ==
  LET neg == At(s, i, "-")
      j   == IF neg THEN i + 1 ELSE i
  IN  IF ~(j <= Len(s) /\ IsDigit(s[j])) THEN ParseFail
      ELSE IF s[j] = "0" THEN ParseOk(PyInt(0), j + 1)
      ELSE LET d == ScanDigits(s, j, 0)
           IN  ParseOk(PyInt(IF neg THEN 0 - d.n ELSE d.n), d.i)

RECURSIVE ScanOnce(_, _)
RECURSIVE ScanMembers(_, _, _)
RECURSIVE ScanItems(_, _, _)

\* JSONObject's loop: i is the index after the opening quote of a key.
ScanMembers(s, i, acc) ==
  LET key == ScanString(s, i, <<>>)
  IN  IF ~key.ok THEN ParseFail
      ELSE LET c == IF At(s, key.i, ":") THEN key.i ELSE SkipWs(s, key.i)
           IN  IF ~At(s, c, ":") THEN ParseFail
               ELSE LET val == ScanOnce(s, SkipWs(s, c + 1))
                    IN  IF ~val.ok THEN ParseFail
                        ELSE LET e   == SkipWs(s, val.i)
                                 all == Append(acc, <<key.v.s, val.v>>)
                             IN  IF At(s, e, "}") THEN ParseOk(PyDict(all), e + 1)
                                 ELSE IF ~At(s, e, ",") THEN ParseFail
                                 ELSE LET q == SkipWs(s, e + 1)
                                      IN  IF At(s, q, QUOTE)
                                          THEN ScanMembers(s, q + 1, all)
                                          ELSE ParseFail

\* JSONArray's loop: i is the index of the next item.
ScanItems(s, i, acc) ==
  LET val == ScanOnce(s, i)
  IN  IF ~val.ok THEN ParseFail
      ELSE LET e   == SkipWs(s, val.i)
               all == Append(acc, <<<<>>, val.v>>)
           IN  IF At(s, e, "]") THEN ParseOk(PyList(all), e + 1)
               ELSE IF ~At(s, e, ",") THEN ParseFail
               ELSE ScanItems(s, SkipWs(s, e + 1), all)

\* scan_once(s, i)
ScanOnce(s, i) ==
  IF i > Len(s) THEN ParseFail
  ELSE IF s[i] = QUOTE THEN ScanString(s, i + 1, <<>>)
  ELSE IF s[i] = "{" THEN
    LET j == SkipWs(s, i + 1)
    IN  IF At(s, j, "}") THEN ParseOk(PyDict(<<>>), j + 1)
        ELSE IF At(s, j, QUOTE) THEN ScanMembers(s, j + 1, <<>>)
        ELSE ParseFail
  ELSE IF s[i] = "[" THEN
    LET j == SkipWs(s, i + 1)
    IN  IF At(s, j, "]") THEN ParseOk(PyList(<<>>), j + 1)
        ELSE ScanItems(s, j, <<>>)
  ELSE IF StartsWith(s, i, <<"n", "u", "l", "l">>) THEN ParseOk(PyNone, i + 4)
  ELSE IF StartsWith(s, i, <<"t", "r", "u", "e">>)
       THEN ParseOk([PyNone EXCEPT !.t = "true"], i + 4)
  ELSE IF StartsWith(s, i, <<"f", "a", "l", "s", "e">>)
       THEN ParseOk([PyNone EXCEPT !.t = "false"], i + 5)
  ELSE ScanNumber(s, i)

\* The keys of a list of pairs.
Keys(kv) == {kv[i][1] : i \in 1..Len(kv)}

\* dict(pairs)[k]: the value of the last pair with key k.
Lookup(kv, k) ==
  kv[CHOOSE i \in 1..Len(kv) :
       kv[i][1] = k /\ \A j \in (i + 1)..Len(kv) : kv[j][1] # k][2]

RECURSIVE DictPairs(_, _)
\* dict(pairs): one pair per key, the last one given, keys in sorted order.
DictPairs(kv, keys) ==
  IF keys = {} THEN <<>>
  ELSE LET k == CHOOSE x \in keys : \A y \in keys : x = y \/ StrLess(x, y)
       IN  <<<<k, Lookup(kv, k)>>>> \o DictPairs(kv, keys \ {k})

\* json.loads(text): a value, or ValueError.
JsonLoads(text) ==
  LET r == ScanOnce(text, SkipWs(text, 1))
  IN  IF ~r.ok THEN ParseFail
      ELSE IF SkipWs(text, r.i) # Len(text) + 1 THEN ParseFail  \* Extra data
      ELSE IF r.v.t = "dict"
           THEN ParseOk(PyDict(DictPairs(r.v.kv, Keys(r.v.kv))), r.i)
      ELSE r

(***************************************************************************)
(* RunData.FromFile, after the read: json.loads, then cls( **decoded).      *)
(* The outcome is [status, rec]; status is "ok" or the exception raised.   *)
(***************************************************************************)
NoRecord == RunData(PyNone, PyNone, PyNone, PyNone, PyNone)

Raised(exc) == [status |-> exc, rec |-> NoRecord]

Returned(r) == [status |-> "ok", rec |-> r]

\* A constructor that binds the fields it knows and ignores the other keys.
ConstructLenient(decoded) ==
  IF decoded.t # "dict" THEN Raised("TypeError")
  ELSE IF ~(FieldSet \subseteq Keys(decoded.kv)) THEN Raised("TypeError")
  ELSE Returned(RunData(Lookup(decoded.kv, K_station_id),
                        Lookup(decoded.kv, K_script_name),
                        Lookup(decoded.kv, K_http_host),
                        Lookup(decoded.kv, K_http_port),
                        Lookup(decoded.kv, K_pid)))

\* cls( **decoded): binds the keys of the mapping to the five fields.
Construct(decoded) ==
  IF decoded.t # "dict" THEN Raised("TypeError")  \* ** needs a mapping
  ELSE IF Keys(decoded.kv) # FieldSet THEN Raised("TypeError")
  ELSE Returned(RunData(Lookup(decoded.kv, K_station_id),
                        Lookup(decoded.kv, K_script_name),
                        Lookup(decoded.kv, K_http_host),
                        Lookup(decoded.kv, K_http_port),
                        Lookup(decoded.kv, K_pid)))

\* A FromFile that catches the decoder's ValueError and returns an empty
\* record instead.
DecodeSwallow(data) ==
  LET d == JsonLoads(data)
  IN  IF ~d.ok THEN Returned(NoRecord) ELSE Construct(d.v)

\* The part of FromFile after runfile.read() returned `data`.
Decode(data) ==
  LET d == JsonLoads(data)
  IN  IF ~d.ok THEN Raised("ValueError") ELSE Construct(d.v)

(***************************************************************************)
(* Paths and the file system.  A path is a character sequence; the file    *)
(* system maps the component list of every existing file or directory to   *)
(* its entry.  Paths hold no "." or ".." component, and relative paths     *)
(* resolve against the root.                                               *)
(***************************************************************************)
\* os.path.join(a, b)
Join(a, b) ==
  IF StartsWith(b, 1, <<SLASH>>) THEN b
  ELSE IF a = <<>> \/ a[Len(a)] = SLASH THEN a \o b
  ELSE a \o <<SLASH>> \o b

RECURSIVE SplitPath(_, _, _)
\* The components of a path: the pieces between slashes, empty ones dropped.
SplitPath(p, cur, acc) ==
  IF p = <<>> THEN (IF cur = <<>> THEN acc ELSE Append(acc, cur))
  ELSE IF Head(p) = SLASH
       THEN SplitPath(Tail(p), <<>>, IF cur = <<>> THEN acc ELSE Append(acc, cur))
  ELSE SplitPath(Tail(p), Append(cur, Head(p)), acc)

\* The node a path names.
Resolve(path) == SplitPath(path, <<>>, <<>>)

Parent(node) == SubSeq(node, 1, Len(node) - 1)

IsChildOf(node, dirNode) == node # <<>> /\ Parent(node) = dirNode

FileEntry(data, access) == [kind |-> "file", data |-> data, access |-> access]

DirEntry == [kind |-> "dir", data |-> <<>>, access |-> TRUE]

IsDir(f, node) == node \in DOMAIN f /\ f[node].kind = "dir"

\* os.path.exists(path), the test with the file type forgotten.
IsFileOrDir(f, path) == path # <<>> /\ Resolve(path) \in DOMAIN f

\* os.path.isfile(path)
IsFile(f, path) ==
  LET node == Resolve(path)
  IN  /\ path # <<>>
      /\ node \in DOMAIN f
      /\ f[node].kind = "file"
      /\ path[Len(path)] # SLASH

\* Whether open(path, 'w') succeeds; it raises IOError otherwise.
CanOpenWrite(f, path) ==
  LET node == Resolve(path)
  IN  /\ path # <<>>
      /\ path[Len(path)] # SLASH           \* "dir/" names a directory
      /\ node # <<>>
      /\ IsDir(f, Parent(node))            \* else ENOENT or ENOTDIR
      /\ ~IsDir(f, node)                   \* else EISDIR
      /\ (node \in DOMAIN f => f[node].access)   \* else EACCES

\* The file system after open(path, 'w'): the file exists and is empty.
OpenWrite(f, path) == (Resolve(path) :> FileEntry(<<>>, TRUE)) @@ f

\* Whether open(path) for reading succeeds; it raises IOError otherwise.
CanOpenRead(f, path) ==
  LET node == Resolve(path)
  IN  /\ path # <<>>
      /\ node \in DOMAIN f
      /\ f[node].kind = "file"
      /\ path[Len(path)] # SLASH
      /\ f[node].access

RECURSIVE Nuls(_)
Nuls(n) == IF n <= 0 THEN <<>> ELSE <<NUL>> \o Nuls(n - 1)

\* The content of a file after write(2) of `bytes` at offset `off`: a write
\* past the end leaves a hole of zero bytes, a write inside overwrites.
WriteAt(data, off, bytes) ==
  IF off >= Len(data) THEN data \o Nuls(off - Len(data)) \o bytes
  ELSE SubSeq(data, 1, off) \o bytes
       \o SubSeq(data, off + Len(bytes) + 1, Len(data))

\* The bytes read(2) returns at offset `off`, at most `n` of them.
ReadAt(data, off, n) ==
  IF off >= Len(data) THEN <<>>
  ELSE SubSeq(data, off + 1, IF off + n < Len(data) THEN off + n ELSE Len(data))

\* The names os.listdir(dir) returns, as a set.
DirNames(f, dir) ==
  {node[Len(node)] : node \in {m \in DOMAIN f : IsChildOf(m, Resolve(dir))}}

\* The orders in which os.listdir may return a set of names.
Listings(names) ==
  {l \in [1..Cardinality(names) -> names] :
     \A i, j \in 1..Cardinality(names) : l[i] = l[j] => i = j}

(***************************************************************************)
(* os.kill(pid, 0) and the process table.  pid_t is a C int; its width is  *)
(* scaled down to IntBits bits.  Negative pids name process groups and are *)
(* not modelled.                                                           *)
(***************************************************************************)
IntBits == 5

INT_MAX == 2 ^ (IntBits - 1) - 1

MaxPid == 4

\* The pids the process table can hold; SelfPid is the calling process.
LivePids == 1..MaxPid

SelfPid == 1

\* The outcome of os.kill(pid, 0): "ok", or the exception it raises.
Kill0(table, pid) ==
  IF pid.t # "int" THEN "TypeError"               \* an integer is required
  ELSE IF pid.n > INT_MAX THEN "OverflowError"    \* does not fit a C int
  ELSE IF pid.n = 0 THEN "ok"                     \* the caller's own group
  ELSE IF pid.n \in LivePids /\ table[pid.n] = "own" THEN "ok"
  ELSE IF pid.n \in LivePids /\ table[pid.n] = "other" THEN "OSError"  \* EPERM
  ELSE "OSError"                                  \* ESRCH

\* RunData.IsAlive: what it returns ("True", "False") or raises.
IsAlive(table, r) ==
  LET k == Kill0(table, r.pid)
  IN  IF k = "ok" THEN "True"
      ELSE IF k = "OSError" THEN "False"
      ELSE k

(***************************************************************************)
(* State                                                                   *)
(***************************************************************************)
VARIABLES
  fs,     \* the file system: node -> entry
  wr,     \* per writer process: its SaveToFile call
  rd,     \* the reader process: its FromFile / EnumerateRunDirectory / IsAlive call
  procs   \* the process table: pid -> "none", "own" (the caller's user), "other"

vars == <<fs, wr, rd, procs>>

Writers == {"w1", "w2"}

\* The size of an I/O buffer: a read or a write moves at most this many
\* characters in one system call.
ChunkSize == 64

\* FLAGS.rundir, shortened; it holds one subdirectory.
RunDir == <<SLASH, "r">>

SubDirName == <<"d">>

BaseFs ==
  (<<>> :> DirEntry) @@ (Resolve(RunDir) :> DirEntry)
  @@ (Resolve(Join(RunDir, SubDirName)) :> DirEntry)

NoReturn == [status |-> "none", path |-> <<>>]

IdleWriter ==
  [pc |-> "idle", rec |-> NoRecord, dir |-> <<>>, filename |-> <<>>,
   off |-> 0, ret |-> NoReturn]

NoResult == [status |-> "none", recs |-> <<>>]

IdleReader ==
  [op |-> "none", pc |-> "idle", self |-> NoRecord, dir |-> <<>>,
   names |-> <<>>, idx |-> 0, path |-> <<>>, off |-> 0, buf |-> <<>>,
   out |-> <<>>, res |-> NoResult]

(***************************************************************************)
(* RunData.SaveToFile(directory), in the steps other processes can see:    *)
(* open(filename, 'w') creates or truncates the file; the text then        *)
(* reaches the file one buffer at a time, at the writer's own offset; the  *)
(* last buffer is flushed by the close, after which the call returns.      *)
(***************************************************************************)
SaveOpen(w, r, directory) ==
  /\ wr[w].pc = "idle"
  /\ LET filename == Join(directory, r.station_id.s)
     IN  IF CanOpenWrite(fs, filename)
         THEN /\ fs' = OpenWrite(fs, filename)
              /\ wr' = [wr EXCEPT ![w] =
                          [pc |-> "open", rec |-> r, dir |-> directory,
                           filename |-> filename, off |-> 0, ret |-> NoReturn]]
         ELSE /\ fs' = fs
              /\ wr' = [wr EXCEPT ![w] =
                          [pc |-> "idle", rec |-> r, dir |-> directory,
                           filename |-> filename, off |-> 0,
                           ret |-> [status |-> "IOError", path |-> <<>>]]]
  /\ UNCHANGED <<rd, procs>>

SaveWrite(w) ==
  /\ wr[w].pc = "open"
  /\ LET text  == AsJSON(wr[w].rec)
         chunk == ReadAt(text, wr[w].off, ChunkSize)
         node  == Resolve(wr[w].filename)
         off2  == wr[w].off + Len(chunk)
     IN  /\ fs' = [fs EXCEPT ![node].data = WriteAt(@, wr[w].off, chunk)]
         /\ wr' = [wr EXCEPT ![w] =
                     IF off2 >= Len(text)
                     THEN [@ EXCEPT !.pc = "idle", !.off = off2,
                                    !.ret = [status |-> "ok",
                                             path |-> wr[w].filename]]
                     ELSE [@ EXCEPT !.off = off2]]
  /\ UNCHANGED <<rd, procs>>

(***************************************************************************)
(* RunData.FromFile(filename): open, read to end of file one buffer at a   *)
(* time, then decode.  EnumerateRunDirectory runs the same steps for each  *)
(* regular file of its listing.                                            *)
(***************************************************************************)
\* The reader when its call ends with result `res`: the locals of the call
\* are gone, what is left is which call it was and what it gave.
Finish(r, res) ==
  [IdleReader EXCEPT !.op = r.op, !.res = res,
                     !.path = IF r.op = "FromFile" THEN r.path ELSE <<>>]

\* A reader that removes the file it could not decode.
ReaderRemoves(f, path, outcome) ==
  IF outcome.status = "ok" THEN f
  ELSE [n \in DOMAIN f \ {Resolve(path)} |-> f[n]]

\* What a reader's call leaves of the file system when a record has been
\* read (or failed to be): the code touches nothing.
ReaderLeaves(f, path, outcome) == f

\* An enumeration that skips the file FromFile raised for and goes on.
EnumSkipOnError(r, status) == [r EXCEPT !.pc = "next", !.idx = @ + 1]

\* EnumerateRunDirectory when FromFile raised `status` for one file: the
\* exception leaves the list comprehension and the function.
EnumOnError(r, status) ==
  Finish(r, [status |-> status, recs |-> <<>>])

FromFileOpen(path) ==
  /\ rd.pc = "idle"
  /\ rd' = IF CanOpenRead(fs, path)
           THEN [IdleReader EXCEPT !.op = "FromFile", !.pc = "read",
                                   !.path = path]
           ELSE Finish([IdleReader EXCEPT !.op = "FromFile", !.path = path],
                       [status |-> "IOError", recs |-> <<>>])
  /\ UNCHANGED <<fs, wr, procs>>

ReadChunk ==
  /\ rd.pc = "read"
  /\ LET chunk == ReadAt(fs[Resolve(rd.path)].data, rd.off, ChunkSize)
     IN  /\ chunk # <<>>
         /\ rd' = [rd EXCEPT !.buf = @ \o chunk, !.off = @ + Len(chunk)]
  /\ UNCHANGED <<fs, wr, procs>>

ReadEOF ==
  /\ rd.pc = "read"
  /\ ReadAt(fs[Resolve(rd.path)].data, rd.off, ChunkSize) = <<>>
  /\ LET outcome == Decode(rd.buf)
     IN  /\ rd' = IF rd.op = "FromFile"
                  THEN Finish(rd, [status |-> outcome.status,
                                   recs |-> IF outcome.status = "ok"
                                            THEN <<outcome.rec>> ELSE <<>>])
                  ELSE IF outcome.status = "ok"
                  THEN [rd EXCEPT !.pc = "next", !.idx = @ + 1,
                                  !.out = Append(@, outcome.rec)]
                  ELSE EnumOnError(rd, outcome.status)
         /\ fs' = ReaderLeaves(fs, rd.path, outcome)
  /\ UNCHANGED <<wr, procs>>

EnumList(directory) ==
  /\ rd.pc = "idle"
  /\ \E l \in Listings(DirNames(fs, directory)) :
       rd' = [IdleReader EXCEPT !.op = "Enumerate", !.pc = "next",
                                !.dir = directory, !.names = l, !.idx = 1]
  /\ UNCHANGED <<fs, wr, procs>>

\* One turn of the list comprehension: isfile(filepath), then FromFile's open.
\* (No step of the model removes a file or turns it into a directory, so the
\* test and the open see the same entry.)
EnumNext ==
  /\ rd.pc = "next"
  /\ rd.idx <= Len(rd.names)
  /\ LET filepath == Join(rd.dir, rd.names[rd.idx])
     IN  rd' = IF ~IsFile(fs, filepath)
               THEN [rd EXCEPT !.idx = @ + 1]
               ELSE IF CanOpenRead(fs, filepath)
               THEN [rd EXCEPT !.pc = "read", !.path = filepath,
                               !.off = 0, !.buf = <<>>]
               ELSE EnumOnError(rd, "IOError")
  /\ UNCHANGED <<fs, wr, procs>>

EnumReturn ==
  /\ rd.pc = "next"
  /\ rd.idx > Len(rd.names)
  /\ rd' = Finish(rd, [status |-> "ok", recs |-> rd.out])
  /\ UNCHANGED <<fs, wr, procs>>

IsAliveCall(r) ==
  /\ rd.pc = "idle"
  /\ rd' = [IdleReader EXCEPT !.op = "IsAlive", !.self = r,
                              !.res = [status |-> IsAlive(procs, r),
                                       recs |-> <<>>]]
  /\ UNCHANGED <<fs, wr, procs>>

(***************************************************************************)
(* The environment of IsAlive: processes other than the caller come and go.*)
(***************************************************************************)
Spawn(p, owner) ==
  /\ procs[p] = "none"
  /\ procs' = [procs EXCEPT ![p] = owner]
  /\ UNCHANGED <<fs, wr, rd>>

Exit(p) ==
  /\ p # SelfPid
  /\ procs[p] # "none"
  /\ procs' = [procs EXCEPT ![p] = "none"]
  /\ UNCHANGED <<fs, wr, rd>>

(***************************************************************************)
(* Inputs                                                                  *)
(***************************************************************************)
S_a == PyStr(<<"a">>)
S_b == PyStr(<<"b">>)
S_h == PyStr(<<"h">>)
S_s == PyStr(<<"s">>)
S_t == PyStr(<<"t">>)

\* The records the concurrent writers publish.  CR1 and CR2 share a station
\* and a length; CR3 is one character longer; CR4 is another station.
CR1 == RunData(S_a, S_s, S_h, PyInt(80), PyInt(1))
CR2 == RunData(S_a, S_t, S_h, PyInt(81), PyInt(1))
CR3 == RunData(S_a, PyStr(<<"s", "t">>), S_h, PyInt(80), PyInt(1))
CR4 == RunData(S_b, S_s, S_h, PyInt(80), PyInt(2))

ConcRecords == {CR1, CR2, CR3, CR4}

\* Which writer publishes which records.
RecordsOf(w) == IF w = "w1" THEN {CR1, CR3} ELSE {CR2, CR4}

\* The paths a reader may be asked to load.
PathsOf(records) == {Join(RunDir, r.station_id.s) : r \in records}

ProcsInit == [p \in LivePids |-> IF p = SelfPid THEN "own" ELSE "none"]

(***************************************************************************)
(* Spec: writers and a reader running concurrently on an empty run         *)
(* directory.                                                              *)
(***************************************************************************)
Init ==
  /\ fs = BaseFs
  /\ wr = [w \in Writers |-> IdleWriter]
  /\ rd = IdleReader
  /\ procs = ProcsInit

Next ==
  \/ \E w \in Writers : \E r \in RecordsOf(w) : SaveOpen(w, r, RunDir)
  \/ \E w \in Writers : SaveWrite(w)
  \/ \E path \in PathsOf(ConcRecords) : FromFileOpen(path)
  \/ ReadChunk
  \/ ReadEOF
  \/ EnumList(RunDir)
  \/ EnumNext
  \/ EnumReturn
  \/ \E r \in ConcRecords : IsAliveCall(r)

Spec == Init /\ [][Next]_vars

(***************************************************************************)
(* SpecSeq: one call at a time (a call starts only when no other call is   *)
(* in progress), on run directories that already hold files of every kind: *)
(* valid records, objects with missing, extra or ill-typed members, other  *)
(* JSON values, text that is no JSON, and a file the caller may not open.  *)
(***************************************************************************)
\* Records whose strings need escaping and whose numbers have a sign, several
\* digits, or are zero.
X1 == RunData(PyStr(<<QUOTE>>), PyStr(<<"q", QUOTE, BSLASH>>),
              PyStr(<<NL, SLASH>>), PyInt(0 - 12), PyInt(305))
X2 == RunData(PyStr(<<>>), PyStr(<<BSLASH, "n">>), PyStr(<<BSLASH, BSLASH>>),
              PyInt(7), PyInt(0))

\* The records the sequential writer publishes: SR1 overwrites station "a",
\* SR2 creates station "c", the station_id of SR3 starts with a slash, and
\* that of SR4 is the name of the subdirectory.
SR1 == RunData(S_a, PyStr(<<"q", QUOTE, BSLASH>>), PyStr(<<NL, SLASH>>),
               PyInt(0 - 12), PyInt(305))
SR2 == RunData(PyStr(<<"c">>), S_s, S_h, PyInt(80), PyInt(2))
SR3 == RunData(PyStr(<<SLASH, "a">>), S_s, S_h, PyInt(80), PyInt(3))
SR4 == RunData(PyStr(SubDirName), S_s, S_h, PyInt(80), PyInt(4))

SeqRecords == {SR1, SR2, SR3, SR4}

\* Every valid record some file of SpecSeq can hold.
ValidRecords == {CR1, CR4, X1, X2} \cup SeqRecords

\* A mapping without key k.
Without(kv, k) == SelectSeq(kv, LAMBDA p : p[1] # k)

\* A mapping with key k set to v.
With(kv, k, v) == [i \in 1..Len(kv) |-> IF kv[i][1] = k THEN <<k, v>> ELSE kv[i]]

ExtraPair == <<<<"x">>, PyInt(1)>>

\* Objects whose key set is not the five fields.
MissingKeyDocs == {PyDict(Without(AsDict(CR1), k)) : k \in FieldSet}

ExtraKeyDocs ==
  {PyDict(Append(AsDict(CR1), ExtraPair)),
   PyDict(Append(Without(AsDict(CR1), K_pid), ExtraPair))}

KeyMismatchDocs == MissingKeyDocs \cup ExtraKeyDocs \cup {PyDict(<<>>)}

\* Objects with the five keys and one value of the wrong shape.
WrongShapeDocs ==
  {PyDict(With(AsDict(CR1), K_pid, PyStr(<<"1">>))),
   PyDict(With(AsDict(CR1), K_http_port, PyNone)),
   PyDict(With(AsDict(CR1), K_station_id, PyInt(7))),
   PyDict(With(AsDict(CR1), K_http_host, PyList(<<>>)))}

\* JSON values that are no object.
NonObjectDocs ==
  {PyList(<<>>), PyList(<<<<<<>>, PyInt(1)>>>>), PyStr(<<"a">>), PyInt(7), PyNone}

\* How the files not written by AsJSON are laid out: keys in the order given.
DocText(d) == Dumps(d, FALSE, 0)

\* Text that is no JSON: nothing, a record cut short, a record with a tail.
MalformedTexts ==
  {<<>>, SubSeq(AsJSON(CR1), 1, Len(AsJSON(CR1)) - 1), AsJSON(CR1) \o <<"}">>}

\* The texts the file of station "a" can hold at the start.
InitialTexts ==
  {AsJSON(r) : r \in {CR1, X1, X2}}
  \cup {DocText(d) : d \in {PyDict(AsDict(CR1))} \cup KeyMismatchDocs
                           \cup WrongShapeDocs \cup NonObjectDocs}
  \cup MalformedTexts

\* Texts FromFile cannot turn into a record.
UndecodableTexts ==
  {DocText(d) : d \in KeyMismatchDocs \cup NonObjectDocs} \cup MalformedTexts

File_a == Resolve(Join(RunDir, <<"a">>))
File_b == Resolve(Join(RunDir, <<"b">>))

InitSeq ==
  /\ \E ea \in {FileEntry(t, TRUE) : t \in InitialTexts}
                 \cup {FileEntry(AsJSON(CR1), FALSE)} :
       \E eb \in {FileEntry(AsJSON(CR4), TRUE), FileEntry(AsJSON(CR4), FALSE),
                  DirEntry} :
         fs = IF eb.kind = "dir" THEN (File_a :> ea) @@ BaseFs
              ELSE (File_a :> ea) @@ (File_b :> eb) @@ BaseFs
  /\ wr = [w \in Writers |-> IdleWriter]
  /\ rd = IdleReader
  /\ procs = ProcsInit

\* No call is in progress.
Quiet == rd.pc = "idle" /\ \A w \in Writers : wr[w].pc = "idle"

NextSeq ==
  \/ Quiet /\ \E r \in SeqRecords : SaveOpen("w1", r, RunDir)
  \/ SaveWrite("w1")
  \/ Quiet /\ \E path \in PathsOf(ValidRecords) : FromFileOpen(path)
  \/ ReadChunk
  \/ ReadEOF
  \/ Quiet /\ EnumList(RunDir)
  \/ EnumNext
  \/ EnumReturn

SpecSeq == InitSeq /\ [][NextSeq]_vars

(***************************************************************************)
(* SpecProbe: IsAlive against a process table that changes under it.       *)
(***************************************************************************)
ProbePids == {0} \cup LivePids \cup {INT_MAX, INT_MAX + 1}

ProbeRecords == {RunData(S_a, S_s, S_h, PyInt(80), PyInt(p)) : p \in ProbePids}

NextProbe ==
  \/ \E p \in LivePids, owner \in {"own", "other"} : Spawn(p, owner)
  \/ \E p \in LivePids : Exit(p)
  \/ \E r \in ProbeRecords : IsAliveCall(r)

SpecProbe == Init /\ [][NextProbe]_vars

(***************************************************************************)
(* Properties                                                              *)
(***************************************************************************)
\* The step that ends a FromFile call which got as far as reading the file.
FromFileEnds == rd.op = "FromFile" /\ rd.pc = "read" /\ rd'.pc = "idle"

\* The step that ends an EnumerateRunDirectory call.
EnumerateEnds == rd.op = "Enumerate" /\ rd.pc # "idle" /\ rd'.pc = "idle"

\* The regular files directly in a directory.
DirFiles(f, dir) ==
  {n \in DOMAIN f : IsChildOf(n, Resolve(dir)) /\ f[n].kind = "file"}

\* C1: round trip.  A FromFile call that has read the text AsJSON gives for a
\* valid record returns that record, field for field; and a FromFile of the
\* path a completed SaveToFile returned returns the record that was saved.
C1_RoundTrip ==
  [][FromFileEnds =>
       /\ \A r \in ValidRecords :
            rd.buf = AsJSON(r) => rd'.res = [status |-> "ok", recs |-> <<r>>]
       /\ \A w \in Writers :
            (wr[w].ret.status = "ok" /\ wr[w].ret.path = rd.path)
              => rd'.res = [status |-> "ok", recs |-> <<wr[w].rec>>]]_vars

\* A record with quotes, backslashes, a newline and a negative number was
\* saved and then loaded from the path SaveToFile returned.
C1_Witness ==
  /\ rd.op = "FromFile"
  /\ rd.res = [status |-> "ok", recs |-> <<SR1>>]
  /\ wr["w1"].rec = SR1
  /\ wr["w1"].ret = [status |-> "ok", path |-> rd.path]

\* C2: strict field matching.  A FromFile call that has read a JSON object
\* lacking one of the five keys, or holding a key that is none of the five,
\* raises TypeError and returns no record.
C2_StrictFields ==
  [][FromFileEnds =>
       \A d \in KeyMismatchDocs :
         rd.buf = DocText(d) => rd'.res = [status |-> "TypeError", recs |-> <<>>]]_vars

\* FromFile raised TypeError on a file that holds an object with an extra key.
C2_Witness ==
  /\ rd.op = "FromFile"
  /\ rd.res.status = "TypeError"
  /\ Resolve(rd.path) \in DOMAIN fs
  /\ fs[Resolve(rd.path)].data = DocText(PyDict(Append(AsDict(CR1), ExtraPair)))

\* C3: filename contract.  Every step of SaveToFile(r, dir) changes at most
\* the file dir/<station_id>, which is a direct entry of dir; when the call
\* returns, it returns that path and the file holds r.AsJSON().
C3_FilenameContract ==
  [][\A w \in Writers :
       wr'[w] # wr[w] =>
         LET dir  == wr'[w].dir
             path == dir \o <<SLASH>> \o wr'[w].rec.station_id.s
             node == Resolve(path)
         IN  /\ fs' # fs => IsChildOf(node, Resolve(dir))
             /\ \A m \in (DOMAIN fs \cup DOMAIN fs') \ {node} :
                  m \in DOMAIN fs /\ m \in DOMAIN fs' /\ fs'[m] = fs[m]
             /\ (wr'[w].pc = "idle" /\ wr'[w].ret.status = "ok")
                  => /\ wr'[w].ret.path = path
                     /\ node \in DOMAIN fs'
                     /\ fs'[node] = FileEntry(AsJSON(wr'[w].rec), TRUE)]_vars

\* C4: liveness probe.  IsAlive returns a boolean for every record and never
\* raises.
C4_ProbeNeverRaises ==
  rd.op = "IsAlive" => rd.res.status \in {"True", "False"}

\* C5: directory scan.  When every regular file of the directory is readable
\* and holds the encoding of a valid record, EnumerateRunDirectory returns,
\* in listing order, the record of each regular file and nothing else;
\* the subdirectory gives no record and no error.
RecordIn(f, node) == CHOOSE r \in ValidRecords : AsJSON(r) = f[node].data

RECURSIVE ExpectedScan(_, _, _)
ExpectedScan(names, f, dir) ==
  IF names = <<>> THEN <<>>
  ELSE LET node == Append(Resolve(dir), Head(names))
       IN  (IF node \in DirFiles(f, dir) THEN <<RecordIn(f, node)>> ELSE <<>>)
           \o ExpectedScan(Tail(names), f, dir)

AllValid(f, dir) ==
  /\ \A n \in DirFiles(f, dir) :
       f[n].access /\ \E r \in ValidRecords : AsJSON(r) = f[n].data
  /\ \A n, m \in DirFiles(f, dir) :
       RecordIn(f, n).station_id = RecordIn(f, m).station_id => n = m

C5_ScanReturnsAll ==
  [][(EnumerateEnds /\ AllValid(fs, rd.dir)) =>
       rd'.res = [status |-> "ok",
                  recs |-> ExpectedScan(rd.names, fs, rd.dir)]]_vars

\* A directory of three valid files and a subdirectory gave three records.
C5_Witness ==
  /\ rd.op = "Enumerate"
  /\ rd.res.status = "ok"
  /\ Len(rd.res.recs) = 3
  /\ Cardinality(DirFiles(fs, RunDir)) = 3
  /\ AllValid(fs, RunDir)
  /\ IsDir(fs, Resolve(Join(RunDir, SubDirName)))

\* C6: readers never mutate the run directory.  No step of FromFile,
\* EnumerateRunDirectory or IsAlive changes the file system.
C6_ReadersKeepOut == [][rd' # rd => fs' = fs]_vars

\* FromFile failed to parse a file that a writer has open, and the file is
\* still there.
C6_Witness ==
  /\ rd.op = "FromFile"
  /\ rd.res.status = "ValueError"
  /\ Resolve(rd.path) \in DOMAIN fs
  /\ \E w \in Writers : wr[w].pc = "open" /\ wr[w].filename = rd.path

\* C7: last writer wins.  Once no SaveToFile is in progress, every file of
\* the run directory holds the complete encoding of one record saved under
\* that station_id, with nothing merged in or left over.
C7_LastWriterWins ==
  (\A w \in Writers : wr[w].pc = "idle") =>
    \A n \in DirFiles(fs, RunDir) :
      \E r \in ConcRecords :
        Resolve(Join(RunDir, r.station_id.s)) = n /\ fs[n].data = AsJSON(r)

\* C8: shape checking.  A FromFile call that has read an object with the five
\* keys and a value of the wrong shape, or a JSON value that is no object,
\* raises TypeError and returns no record.
C8_ShapeChecked ==
  [][FromFileEnds =>
       \A d \in WrongShapeDocs \cup NonObjectDocs :
         rd.buf = DocText(d) => rd'.res = [status |-> "TypeError", recs |-> <<>>]]_vars

\* C9: enumeration does not recover.  When a regular file of the directory
\* cannot be opened or cannot be decoded, EnumerateRunDirectory ends with the
\* error of such a file and returns no record.
ErrorOf(f, n) ==
  IF ~f[n].access THEN "IOError"
  ELSE IF f[n].data \in MalformedTexts THEN "ValueError"
  ELSE "TypeError"

BadFiles(f, dir) ==
  {n \in DirFiles(f, dir) : ~f[n].access \/ f[n].data \in UndecodableTexts}

C9_ScanPropagates ==
  [][(EnumerateEnds /\ BadFiles(fs, rd.dir) # {}) =>
       /\ rd'.res.status \in {ErrorOf(fs, n) : n \in BadFiles(fs, rd.dir)}
       /\ rd'.res.recs = <<>>]_vars

\* An enumeration ended with the parse error of one file although another
\* file of the directory holds a valid record.
C9_Witness ==
  /\ rd.op = "Enumerate"
  /\ rd.res = [status |-> "ValueError", recs |-> <<>>]
  /\ fs[File_a].data \in MalformedTexts
  /\ File_b \in DOMAIN fs
  /\ fs[File_b] = FileEntry(AsJSON(CR4), TRUE)

\* C10: no torn records.  Every record FromFile or EnumerateRunDirectory
\* returns is one of the records passed to SaveToFile.
C10_NoTornRecords ==
  (rd.op \in {"FromFile", "Enumerate"} /\ rd.res.status = "ok") =>
    \A i \in 1..Len(rd.res.recs) : rd.res.recs[i] \in ConcRecords

IsProperPrefix(a, b) == Len(a) < Len(b) /\ a = SubSeq(b, 1, Len(a))

\* C10 as amended: a read that ends with nothing or with a proper prefix of a
\* record's encoding fails with ValueError.
C10_PartialFails ==
  [][(rd.pc = "read" /\ rd'.pc # "read"
      /\ \E r \in ConcRecords : IsProperPrefix(rd.buf, AsJSON(r)))
       => rd'.res = [status |-> "ValueError", recs |-> <<>>]]_vars

\* FromFile raised ValueError on a file whose writer is midway: the file holds
\* the first buffer of the record and no more.
C10_Witness ==
  /\ rd.op = "FromFile"
  /\ rd.res.status = "ValueError"
  /\ \E w \in Writers :
       /\ wr[w].pc = "open"
       /\ wr[w].filename = rd.path
       /\ wr[w].off > 0
       /\ fs[Resolve(rd.path)].data = SubSeq(AsJSON(wr[w].rec), 1, wr[w].off)

=============================================================================
